---------------------------- MODULE Spec2Model ----------------------------
(***************************************************************************)
(* Model of substrate-timetravel's election gadgets:                       *)
(*   src/src/utils.rs    SortedTargets::from_voters, share_distribution    *)
(*   src/src/gadgets.rs  mine_dpos, min_active_stake,                      *)
(*                       snapshot_data_or_force                            *)
(*   src/src/gadgets/staking_ledger.rs  staking_ledger_checks and the      *)
(*                       checks and the simulation it calls                *)
(* Rust's u64/u128 values are modelled by naturals that stay far below     *)
(* the width of the type; f32 values are modelled bit-exactly (24-bit      *)
(* significand, round to nearest, ties to even).                           *)
(***************************************************************************)
EXTENDS Integers, Sequences, FiniteSets, TLC

(***************************************************************************)
(* Bounds of the model.                                                    *)
(***************************************************************************)
\* number of voters of an enumerated snapshot
MaxVoters == 2
\* target identifiers 1..NumTargets of an enumerated snapshot
NumTargets == 2
\* largest EPM::DesiredTargets value
MaxDesired == 3
\* length of an enumerated T::VoterList
MaxListLen == 4
\* largest T::MaxElectingVoters value
MaxElecting == 3
\* account identifiers 1..NumAccounts of Staking::Bonded and Staking::Ledger
NumAccounts == 2
\* block numbers 1..MaxBlock of an externalities
MaxBlock == 2
\* largest number of externalities handed to staking_ledger_checks
MaxExts == 3
\* number of consecutive snapshot_data_or_force calls
MaxCalls == 3
\* T::MaxWinners of the runtime
MaxWinners == 2
\* number of consecutive write_csv calls on one path
MaxCsvCalls == 3
\* number of distinct CSV entries
NumEntries == 2
\* number of failed connection attempts before the RPC client connects
MaxConnectFailures == 2
\* number of consecutive mine_with calls
MaxMineCalls == 3
\* largest number of balancing iterations of a solver
MaxIterations == 2

Targets == 1..NumTargets

\* voter stakes: zero (a "bad voter"), a small stake, and 2^24 + 3, the
\* smallest stake that f32 cannot represent and rounds upwards
BigStake == 2^24 + 3
Stakes == {0, 10, BigStake}

\* weights handed to share_distribution
Weights == {0, 1, 5, 99, 100, 5242881, BigStake}

ProRata == "ProRata"
Pareto == "Pareto"
ShareDistribution == {ProRata, Pareto}

\* Option<T>: None is the empty sequence, Some(x) the sequence of x alone
None == <<>>

Some(x) == <<x>>

Unwrap(option) == option[1]

(***************************************************************************)
(* Generic helpers: Vec and BTreeMap.                                      *)
(***************************************************************************)
Range(s) == {s[i] : i \in DOMAIN s}

Min(S) == CHOOSE x \in S : \A y \in S : x <= y

RECURSIVE SumSeq(_)
SumSeq(s) == IF s = <<>> THEN 0 ELSE Head(s) + SumSeq(Tail(s))

\* the keys of a BTreeMap in iteration order (ascending)
RECURSIVE KeysAscending(_)
KeysAscending(S) ==
    IF S = {} THEN <<>>
    ELSE LET k == Min(S) IN <<k>> \o KeysAscending(S \ {k})

\* Insert x into a sequence already sorted by key, behind every element
\* whose key is not larger: the step of a stable sort.
RECURSIVE InsertByKey(_, _, _)
InsertByKey(sorted, x, key) ==
    IF sorted = <<>> THEN <<x>>
    ELSE IF key[Head(sorted)] <= key[x]
         THEN <<Head(sorted)>> \o InsertByKey(Tail(sorted), x, key)
         ELSE <<x>> \o sorted

\* slice::sort_by_key: stable, ascending by key
RECURSIVE SortByKeyFrom(_, _, _)
SortByKeyFrom(done, rest, key) ==
    IF rest = <<>> THEN done
    ELSE SortByKeyFrom(InsertByKey(done, Head(rest), key), Tail(rest), key)

sort_by_key(s, key) == SortByKeyFrom(<<>>, s, key)

(***************************************************************************)
(* f32 arithmetic.  A positive f32 is [m, e] with 2^23 <= m < 2^24 and     *)
(* value m * 2^e; zero is [m |-> 0, e |-> 0].                              *)
(***************************************************************************)
F32Zero == [m |-> 0, e |-> 0]

\* the f32 nearest to the literal 0.2: 0x3E4CCCCD = 13421773 * 2^-26
F32_0_2 == [m |-> 13421773, e |-> -26]
\* the f32 nearest to the literal 0.8: 0x3F4CCCCD = 13421773 * 2^-24
F32_0_8 == [m |-> 13421773, e |-> -24]

RECURSIVE BitLen(_)
BitLen(n) == IF n = 0 THEN 0 ELSE 1 + BitLen(n \div 2)

\* q plus the rounding of the remainder r, half being half a unit of q
RoundHalfEven(q, r, half) ==
    IF r > half \/ (r = half /\ q % 2 = 1) THEN q + 1 ELSE q

F32Normalize(m, e) ==
    IF m = 2^24 THEN [m |-> 2^23, e |-> e + 1] ELSE [m |-> m, e |-> e]

\* `n as f32` for an unsigned integer n
as_f32(n) ==
    IF n = 0 THEN F32Zero
    ELSE LET k == BitLen(n) IN
         IF k <= 24 THEN [m |-> n * 2^(24 - k), e |-> k - 24]
         ELSE LET s == k - 24 IN
              F32Normalize(RoundHalfEven(n \div 2^s, n % 2^s, 2^(s - 1)), s)

\* x * y in f32: the exact 48-bit product of the significands, computed in
\* 12-bit limbs as H * 2^24 + L, rounded to 24 bits
f32_mul(x, y) ==
    IF x.m = 0 \/ y.m = 0 THEN F32Zero
    ELSE LET a == x.m \div 4096
             b == x.m % 4096
             c == y.m \div 4096
             d == y.m % 4096
             mid == a * d + b * c
             L0 == (mid % 4096) * 4096 + b * d
             H == a * c + (mid \div 4096) + (L0 \div 2^24)
             L == L0 % 2^24
         IN IF H >= 2^23
            THEN F32Normalize(RoundHalfEven(H, L, 2^23), x.e + y.e + 24)
            ELSE F32Normalize(RoundHalfEven(2 * H + (L \div 2^23), L % 2^23, 2^22),
                              x.e + y.e + 23)

\* `x as u64` / `x as usize` for a non-negative f32: truncation
f32_as_u64(x) ==
    IF x.m = 0 THEN 0
    ELSE IF x.e >= 0 THEN x.m * 2^(x.e)
    ELSE IF -x.e >= 24 THEN 0
    ELSE x.m \div 2^(-x.e)

(***************************************************************************)
(* utils.rs: SortedTargets::from_voters                                    *)
(* A voter is [who, stake, targets]; the map is a function target -> u64.  *)
(***************************************************************************)
EmptyMap == [t \in {} |-> 0]

\* MapAdd with the entry overwritten instead of added to
MapAdd_insert(map, target, stake) ==
    IF target \in DOMAIN map
    THEN [map EXCEPT ![target] = stake]
    ELSE map @@ (target :> stake)

\* *map.entry(target).or_insert(0) += stake
MapAdd(map, target, stake) ==
    IF target \in DOMAIN map
    THEN [map EXCEPT ![target] = @ + stake]
    ELSE map @@ (target :> stake)

\* the inner loop over one voter's targets
RECURSIVE AddVote(_, _, _)
AddVote(map, stake, targets) ==
    IF targets = <<>> THEN map
    ELSE AddVote(MapAdd(map, Head(targets), stake), stake, Tail(targets))

\* the outer loop over the voters
RECURSIVE AddVotes(_, _)
AddVotes(map, voters) ==
    IF voters = <<>> THEN map
    ELSE AddVotes(AddVote(map, Head(voters).stake, Head(voters).targets),
                  Tail(voters))

StakeMap(voters) == AddVotes(EmptyMap, voters)

\* from_voters over a map that iterates in insertion order
from_voters_insertion_order(voters) ==
    LET map == StakeMap(voters)
        RECURSIVE Flat(_)
        Flat(vs) == IF vs = <<>> THEN <<>> ELSE Head(vs).targets \o Flat(Tail(vs))
        RECURSIVE Seen(_, _)
        Seen(acc, rest) ==
            IF rest = <<>> THEN acc
            ELSE Seen(IF \E i \in DOMAIN acc : acc[i] = Head(rest)
                      THEN acc ELSE Append(acc, Head(rest)),
                      Tail(rest))
    IN sort_by_key(Seen(<<>>, Flat(voters)), map)

from_voters(voters) ==
    LET map == StakeMap(voters)
        sorted_keys == KeysAscending(DOMAIN map)
    IN sort_by_key(sorted_keys, map)

(***************************************************************************)
(* utils.rs: share_distribution                                            *)
(* The result is [status |-> "ok", shares |-> <<target, amount>>...], or   *)
(* Panicked when an integer division by zero aborts the call.              *)
(***************************************************************************)
Panicked == [status |-> "panic"]

Returned(shares) == [status |-> "ok", shares |-> shares]

\* one (target, share) entry per target of the slice, in slice order
EqualShares(targets, share) == [i \in 1..Len(targets) |-> <<targets[i], share>>]

\* ProRataShares with the share rounded up instead of down
ProRataShares_ceil(sorted_targets, weight) ==
    IF Len(sorted_targets) = 0 THEN Panicked
    ELSE LET share == (weight + Len(sorted_targets) - 1) \div Len(sorted_targets)
         IN Returned(EqualShares(sorted_targets, share))

\* utils.rs:39-45
ProRataShares(sorted_targets, weight) ==
    IF Len(sorted_targets) = 0 THEN Panicked
    ELSE LET share == weight \div Len(sorted_targets)
         IN Returned(EqualShares(sorted_targets, share))

\* (sorted_targets.0.len() as f32 * 0.8) as usize
split_index(len) == f32_as_u64(f32_mul(as_f32(len), F32_0_8))

\* (weight as f32 * 0.2) as u64
twenty_total_share(weight) == f32_as_u64(f32_mul(as_f32(weight), F32_0_2))

\* (weight as f32 * 0.8) as u64
eighty_total_share(weight) == f32_as_u64(f32_mul(as_f32(weight), F32_0_8))

\* utils.rs:47-71; the two divisions come before the loops, the one by
\* bottom_eighty.len() first
ParetoShares(sorted_targets, weight) ==
    LET len == Len(sorted_targets)
        bottom_eighty == SubSeq(sorted_targets, 1, split_index(len))
        top_twenty == SubSeq(sorted_targets, split_index(len) + 1, len)
    IN IF Len(bottom_eighty) = 0 THEN Panicked
       ELSE IF Len(top_twenty) = 0 THEN Panicked
       ELSE LET twenty_share == twenty_total_share(weight) \div Len(bottom_eighty)
                eighty_share == eighty_total_share(weight) \div Len(top_twenty)
            IN Returned(EqualShares(bottom_eighty, twenty_share)
                        \o EqualShares(top_twenty, eighty_share))

share_distribution(sorted_targets, weight, distribution) ==
    IF distribution = ProRata
    THEN ProRataShares(sorted_targets, weight)
    ELSE ParetoShares(sorted_targets, weight)

(***************************************************************************)
(* sp_npos_elections, as called by mine_dpos (gadgets.rs:330,340):         *)
(* to_supports and Supports::evaluate.                                     *)
(* A u128 too large for one integer is kept as [hi, lo] = hi * 2^24 + lo.  *)
(***************************************************************************)
\* u128::MAX, the start value of minimal_stake in evaluate; it stands above
\* every total the model can build
U128_MAX == 2147483647

WideZero == [hi |-> 0, lo |-> 0]

WideAdd(x, y) ==
    [hi |-> x.hi + y.hi + ((x.lo + y.lo) \div 2^24), lo |-> (x.lo + y.lo) % 2^24]

\* total.saturating_mul(total), for total < 2^27
WideSquare(total) ==
    LET a == total \div 4096
        b == total % 4096
        lo0 == ((2 * a * b) % 4096) * 4096 + b * b
    IN [hi |-> a * a + ((2 * a * b) \div 4096) + (lo0 \div 2^24), lo |-> lo0 % 2^24]

\* let support = supports.entry(target).or_default();
\* support.total += weight; support.voters.push((who, weight))
SupportAdd(supports, who, target, weight) ==
    IF target \in DOMAIN supports
    THEN [supports EXCEPT ![target] =
              [total |-> @.total + weight, voters |-> Append(@.voters, <<who, weight>>)]]
    ELSE supports @@ (target :> [total |-> weight, voters |-> <<<<who, weight>>>>])

RECURSIVE SupportAddAll(_, _, _)
SupportAddAll(supports, who, distribution) ==
    IF distribution = <<>> THEN supports
    ELSE SupportAddAll(SupportAdd(supports, who, Head(distribution)[1], Head(distribution)[2]),
                       who, Tail(distribution))

RECURSIVE SupportMap(_, _)
SupportMap(supports, assignments) ==
    IF assignments = <<>> THEN supports
    ELSE SupportMap(SupportAddAll(supports, Head(assignments).who, Head(assignments).distribution),
                    Tail(assignments))

\* the supports as a Vec of (target, Support), in the BTreeMap's key order
to_supports(assignments) ==
    LET map == SupportMap(EmptyMap, assignments)
        keys == KeysAscending(DOMAIN map)
    IN [i \in 1..Len(keys) |->
           [target |-> keys[i], total |-> map[keys[i]].total, voters |-> map[keys[i]].voters]]

\* the loop of evaluate over the supports, from the score so far
RECURSIVE EvaluateFrom(_, _)
EvaluateFrom(score, supports) ==
    IF supports = <<>> THEN score
    ELSE LET total == Head(supports).total
         IN EvaluateFrom(
                [minimal_stake |-> IF total < score.minimal_stake
                                   THEN total ELSE score.minimal_stake,
                 sum_stake |-> score.sum_stake + total,
                 sum_stake_squared |-> WideAdd(score.sum_stake_squared, WideSquare(total))],
                Tail(supports))

evaluate(supports) ==
    EvaluateFrom([minimal_stake |-> U128_MAX, sum_stake |-> 0,
                  sum_stake_squared |-> WideZero], supports)

(***************************************************************************)
(* gadgets.rs: mine_dpos                                                   *)
(***************************************************************************)
Reverse(s) == [i \in 1..Len(s) |-> s[Len(s) + 1 - i]]

\* Iterator::take(n)
Take(s, n) == SubSeq(s, 1, IF n < Len(s) THEN n ELSE Len(s))

\* BadVoter without the test of the stake
BadVoter_no_targets(voter) == voter.targets = <<>>

\* BadVoter without the test of the targets
BadVoter_zero_stake(voter) == voter.stake = 0

\* gadgets.rs:306
BadVoter(voter) == voter.targets = <<>> \/ voter.stake = 0

\* gadgets.rs:305-328: the assignments of the voters, in order; a voter whose
\* share_distribution call panics aborts the whole run
RECURSIVE Assign(_, _, _, _)
Assign(assignments, voters, sorted_targets_by_stake, distribution_type) ==
    IF voters = <<>> THEN [status |-> "ok", assignments |-> assignments]
    ELSE LET voter == Head(voters) IN
         IF BadVoter(voter)
         THEN Assign(assignments, Tail(voters), sorted_targets_by_stake, distribution_type)
         ELSE LET shares == share_distribution(sorted_targets_by_stake, voter.stake,
                                               distribution_type)
              IN IF shares.status = "panic" THEN Panicked
                 ELSE Assign(Append(assignments,
                                    [who |-> voter.who, distribution |-> shares.shares]),
                             Tail(voters), sorted_targets_by_stake, distribution_type)

\* Winners without the reversal: the smallest totals are kept
Winners_unreversed(all_supports, desired_targets) ==
    Take(sort_by_key(all_supports, [s \in Range(all_supports) |-> s.total]),
         desired_targets)

\* gadgets.rs:332-337: sort by total, reverse, keep the first desired_targets
Winners(all_supports, desired_targets) ==
    Take(Reverse(sort_by_key(all_supports,
                             [s \in Range(all_supports) |-> s.total])),
         desired_targets)

\* Elect with the score taken over all the supports
Elect_unbounded(assignments, desired_targets) ==
    LET all_supports == to_supports(assignments)
        supports == Winners(all_supports, desired_targets)
    IN [status |-> "ok",
        assignments |-> assignments,
        all_supports |-> all_supports,
        supports |-> supports,
        score |-> evaluate(all_supports)]

\* gadgets.rs:330-354: the supports of the assignments, the winners among
\* them and their score
Elect(assignments, desired_targets) ==
    LET all_supports == to_supports(assignments)
        supports == Winners(all_supports, desired_targets)
    IN [status |-> "ok",
        assignments |-> assignments,
        all_supports |-> all_supports,
        supports |-> supports,
        score |-> evaluate(supports)]

mine_dpos(snap, desired, distribution_type) ==
    IF snap = None THEN [status |-> "err", error |-> "Snapshot did not exist."]
    ELSE IF desired = None THEN [status |-> "err", error |-> "Desired targets did not exist."]
    ELSE LET voters == Unwrap(snap).voters
             desired_targets == Unwrap(desired)
             sorted_targets_by_stake == from_voters(voters)
             assigned == Assign(<<>>, voters, sorted_targets_by_stake, distribution_type)
         IN IF assigned.status = "panic" THEN Panicked
            ELSE Elect(assigned.assignments, desired_targets)

(***************************************************************************)
(* gadgets.rs: min_active_stake, one loop iteration at a time              *)
(***************************************************************************)
\* u64::MAX, the start value of min_active_stake; no weight of the model is
\* above it
U64_MAX == 2147483647

\* gadgets.rs:149
NPOS_MAX_ITERATIONS_COEFFICIENT == 2

\* gadgets.rs:155-160, maybe_max_len being Some(T::MaxElectingVoters::get())
max_allowed_len_of(maybe_max_len, all_voter_count) ==
    LET len == IF maybe_max_len = None THEN all_voter_count ELSE Unwrap(maybe_max_len)
    IN IF len < all_voter_count THEN len ELSE all_voter_count

\* ScanGoesOn without the cap on the voters seen
ScanGoesOn_uncapped(all_voters, voters_seen, max_allowed_len) ==
    Len(all_voters) < max_allowed_len

\* gadgets.rs:167-168
ScanGoesOn(all_voters, voters_seen, max_allowed_len) ==
    /\ Len(all_voters) < max_allowed_len
    /\ voters_seen < NPOS_MAX_ITERATIONS_COEFFICIENT * max_allowed_len

\* LowerStake with the comparison turned round
LowerStake_greater(voter_weight, min_active_stake) ==
    IF voter_weight > min_active_stake THEN voter_weight ELSE min_active_stake

\* gadgets.rs:183-187
LowerStake(voter_weight, min_active_stake) ==
    IF voter_weight < min_active_stake THEN voter_weight ELSE min_active_stake

(***************************************************************************)
(* gadgets/staking_ledger.rs: the checks of Staking::Bonded and            *)
(* Staking::Ledger. An externalities is [block_number, bonded, ledger],    *)
(* bonded a map from stash to controller and ledger a map from controller  *)
(* to StakingLedger, of which stash and total are kept. A storage map is   *)
(* iterated in the order of its hashed keys, an order that does not depend *)
(* on the checks; the accounts are numbered in that order.                 *)
(***************************************************************************)
\* StorageMap::get
StorageGet(map, key) == IF key \in DOMAIN map THEN Some(map[key]) ELSE None

\* StorageMap::insert
StorageInsert(map, key, value) ==
    [k \in DOMAIN map \cup {key} |-> IF k = key THEN value ELSE map[k]]

\* StorageMap::remove
StorageRemove(map, key) == [k \in DOMAIN map \ {key} |-> map[k]]

\* StorageMap::iter, as the keys in iteration order
StorageKeys(map) == KeysAscending(DOMAIN map)

\* gadgets.rs:25-27
block_number(e) == e.block_number

\* IsBadLedger that takes a stash without Bonded entry for a good one
IsBadLedger_unbonded_ok(controller, stash, bonded) ==
    LET maybe_bonded == StorageGet(bonded, stash)
    IN IF maybe_bonded /= None
       THEN controller /= Unwrap(maybe_bonded)
       ELSE FALSE

\* staking_ledger.rs:15-33: whether the ledger's stash is pushed
IsBadLedger(controller, stash, bonded) ==
    LET maybe_bonded == StorageGet(bonded, stash)
    IN IF maybe_bonded /= None
       THEN controller /= Unwrap(maybe_bonded)
       ELSE TRUE

\* staking_ledger.rs:12-34: the loop over Ledger::iter()
RECURSIVE LedgerChecksFrom(_, _, _)
LedgerChecksFrom(bad_stashes, controllers, e) ==
    IF controllers = <<>> THEN bad_stashes
    ELSE LET controller == Head(controllers)
             stash == e.ledger[controller].stash
         IN LedgerChecksFrom(
                IF IsBadLedger(controller, stash, e.bonded)
                THEN Append(bad_stashes, stash)
                ELSE bad_stashes,
                Tail(controllers), e)

\* staking_ledger.rs:9-37
ledger_checks(e) == LedgerChecksFrom(<<>>, StorageKeys(e.ledger), e)

\* staking_ledger.rs:48-65: the loop over Bonded::iter()
RECURSIVE BondedChecksFrom(_, _, _)
BondedChecksFrom(lists, stashes, e) ==
    IF stashes = <<>> THEN lists
    ELSE LET stash == Head(stashes)
             controller == e.bonded[stash]
             ledger == StorageGet(e.ledger, controller)
         IN BondedChecksFrom(
                IF ledger = None
                THEN [lists EXCEPT !.none_ledgers = Append(@, <<stash, controller>>)]
                ELSE [lists EXCEPT
                        !.inconsistent_ledgers =
                            IF Unwrap(ledger).stash /= stash
                            THEN Append(@, <<stash, Unwrap(ledger).stash>>)
                            ELSE @,
                        !.ok_ledgers = Append(@, stash)],
                Tail(stashes), e)

\* staking_ledger.rs:39-67
bonded_checks(e) ==
    BondedChecksFrom([none_ledgers |-> <<>>, inconsistent_ledgers |-> <<>>,
                      ok_ledgers |-> <<>>],
                     StorageKeys(e.bonded), e)

\* SelectParentChild with the comparison turned round
SelectParentChild_flipped(exts) ==
    LET ext == exts[Len(exts)]
        ext_other == exts[1]
        bn1 == block_number(ext)
        bn2 == block_number(ext_other)
    IN IF bn1 < bn2
       THEN [ext_parent |-> ext_other, ext_child |-> ext]
       ELSE [ext_parent |-> ext, ext_child |-> ext_other]

\* staking_ledger.rs:77-89: split_off(1) leaves the first externalities in
\* exts and ext0.pop() takes the last
SelectParentChild(exts) ==
    LET ext == exts[Len(exts)]
        ext_other == exts[1]
        bn1 == block_number(ext)
        bn2 == block_number(ext_other)
    IN IF bn1 > bn2
       THEN [ext_parent |-> ext_other, ext_child |-> ext]
       ELSE [ext_parent |-> ext, ext_child |-> ext_other]

\* ExpectedLen that lets more than two externalities pass
ExpectedLen_at_least(exts) == Len(exts) >= 2

\* staking_ledger.rs:74
ExpectedLen(exts) == Len(exts) = 2

\* StakingLedgerOf that refuses a ledger whose stash is not bonded to the
\* controller
StakingLedgerOf_bonded_only(e, controller) ==
    LET ledger == StorageGet(e.ledger, controller)
    IN IF ledger = None THEN None
       ELSE IF StorageGet(e.bonded, Unwrap(ledger).stash) = Some(controller)
            THEN ledger
            ELSE None

\* staking_ledger.rs:176, pallet_staking's
\* Pallet::ledger(StakingAccount::Controller(controller)): the entry of Ledger
\* under the controller, an error when there is none
StakingLedgerOf(e, controller) == StorageGet(e.ledger, controller)

\* staking_ledger.rs:188-190
DeprecateController(e, stash, controller, ledger) ==
    LET bonded == StorageInsert(e.bonded, stash, stash)
        removed == StorageRemove(e.ledger, controller)
    IN [e EXCEPT !.bonded = bonded,
                 !.ledger = StorageInsert(removed, stash, ledger)]

(***************************************************************************)
(* gadgets.rs: snapshot_data_or_force on the storage of the election       *)
(* provider pallet, [snapshot, snapshot_metadata, desired_targets], each   *)
(* an Option. The data provider is what create_snapshot would read:        *)
(* Some([voters, targets, desired_targets]), or None when it fails.        *)
(***************************************************************************)
\* the length of the SCALE encoding of a RoundSnapshot with account ids of
\* 32 bytes and fewer than 64 elements in each Vec: a length prefix of one
\* byte, then (AccountId, u64, BoundedVec<AccountId>) for each voter and an
\* AccountId for each target
RECURSIVE EncodedVotersLen(_)
EncodedVotersLen(voters) ==
    IF voters = <<>> THEN 0
    ELSE 32 + 8 + 1 + 32 * Len(Head(voters).targets) + EncodedVotersLen(Tail(voters))

EncodedLen(snap) == 1 + EncodedVotersLen(snap.voters) + 1 + 32 * Len(snap.targets)

\* gadgets.rs:53, EPM::Pallet::create_snapshot: the voters and targets of the
\* data provider become the snapshot, their numbers the metadata, and the
\* desired targets are capped at the number of targets
create_snapshot(storage, provider) ==
    LET targets == Unwrap(provider).targets
        voters == Unwrap(provider).voters
        desired == Unwrap(provider).desired_targets
    IN [snapshot |-> Some([voters |-> voters, targets |-> targets]),
        snapshot_metadata |-> Some([voters |-> Len(voters), targets |-> Len(targets)]),
        desired_targets |-> Some(IF desired > Len(targets) THEN Len(targets) ELSE desired)]

\* gadgets.rs:56-61: the pair returned, or the panic of an expect
SnapshotData(storage) ==
    IF storage.snapshot_metadata = None \/ storage.snapshot = None
    THEN [status |-> "panic", storage |-> storage]
    ELSE [status |-> "ok", storage |-> storage,
          metadata |-> Unwrap(storage.snapshot_metadata),
          size |-> EncodedLen(Unwrap(storage.snapshot))]

\* snapshot_data_or_force that creates the snapshot whether there is one or not
snapshot_data_or_force_always(storage, provider) ==
    IF provider = None
    THEN [status |-> "panic", storage |-> storage]
    ELSE SnapshotData(create_snapshot(storage, provider))

\* gadgets.rs:38-63
snapshot_data_or_force(storage, provider) ==
    IF storage.snapshot /= None
    THEN SnapshotData(storage)
    ELSE IF provider = None
         THEN [status |-> "panic", storage |-> storage]
         ELSE SnapshotData(create_snapshot(storage, provider))

(***************************************************************************)
(* gadgets.rs: compute_and_store_unbounded_snapshot on the same storage    *)
(* and data provider.                                                      *)
(***************************************************************************)
\* EPM::Pallet::kill_snapshot
kill_snapshot(storage) ==
    [snapshot |-> None, snapshot_metadata |-> None, desired_targets |-> None]

\* gadgets.rs:95-97, ElectionProviderBase::desired_targets_checked: the
\* desired targets of the data provider, an error when above MaxWinners
desired_targets_checked(provider) ==
    IF Unwrap(provider).desired_targets <= MaxWinners
    THEN Some(Unwrap(provider).desired_targets)
    ELSE None

\* CappedDesiredTargets that keeps the desired targets as they are
CappedDesiredTargets_uncapped(desired_targets, targets) == desired_targets

\* gadgets.rs:98-107
CappedDesiredTargets(desired_targets, targets) ==
    LET max_desired_targets == Len(targets)
    IN IF desired_targets > max_desired_targets
       THEN max_desired_targets
       ELSE desired_targets

\* gadgets.rs:80-127: electable_targets and electing_voters fail when the
\* data provider does
compute_and_store_unbounded_snapshot(storage, provider) ==
    LET killed == kill_snapshot(storage) IN
    IF provider = None THEN [status |-> "err", storage |-> killed]
    ELSE IF desired_targets_checked(provider) = None
    THEN [status |-> "err", storage |-> killed]
    ELSE LET targets == Unwrap(provider).targets
             voters == Unwrap(provider).voters
             desired == CappedDesiredTargets(Unwrap(desired_targets_checked(provider)),
                                             targets)
             metadata == [voters |-> Len(voters), targets |-> Len(targets)]
             snap == [voters |-> voters, targets |-> targets]
         IN [status |-> "ok",
             storage |-> [snapshot |-> Some(snap),
                          snapshot_metadata |-> Some(metadata),
                          desired_targets |-> Some(desired)],
             metadata |-> metadata,
             size |-> EncodedLen(snap)]

(***************************************************************************)
(* main.rs: write_csv.  A file is None while its path does not exist and   *)
(* Some(lines) otherwise; a line is the header or the row of one entry.    *)
(***************************************************************************)
HeaderLine == [kind |-> "header", entry |-> 0]

Row(entry) == [kind |-> "row", entry |-> entry]

\* has_headers that is always set
HasHeaders_always(file) == TRUE

\* main.rs:298: headers are written when the path does not exist yet
HasHeaders(file) == file = None

\* main.rs:294-313.  outcome "open_err": OpenOptions::open fails (line 305);
\* "write_err": serialize or flush fails (309-310) after create(true) made
\* the file; "ok": the header, when asked for, and the row are appended.
write_csv(file, entry, outcome) ==
    LET headers == HasHeaders(file)
        opened == IF file = None THEN <<>> ELSE Unwrap(file)
    IN CASE outcome = "open_err" -> [status |-> "err", file |-> file]
         [] outcome = "write_err" -> [status |-> "err", file |-> Some(opened)]
         [] OTHER ->
              [status |-> "ok",
               file |-> Some(opened \o (IF headers THEN <<HeaderLine>> ELSE <<>>)
                                    \o <<Row(entry)>>)]

(***************************************************************************)
(* main.rs: the runtime selector and main.                                 *)
(***************************************************************************)
\* main.rs:135-163: the exports the body of any_runtime! is compiled with;
\* the Polkadot and Kusama arms are commented out and the catch-all arm
\* uses the westend exports
any_runtime(runtime) ==
    IF runtime = "Westend" THEN "westend" ELSE "westend"

\* main.rs:203-243: the runtime main selects for a chain name, None for an
\* unexpected chain
RuntimeOfChain(chain) ==
    CASE chain \in {"polkadot", "development"} -> Some("Polkadot")
      [] chain \in {"kusama", "kusama-dev"} -> Some("Kusama")
      [] chain = "westend" -> Some("Westend")
      [] OTHER -> None

\* main.rs:256-258, 278-280: what main does with the result of the command,
\* Result::map_err(log::error!).unwrap()
AfterCommand(m, command, result) ==
    IF result = "err"
    THEN [m EXCEPT !.log = Append(@, command \o " error"),
                   !.result = result,
                   !.pc = "panicked"]
    ELSE [m EXCEPT !.result = result, !.pc = "finishing"]

(***************************************************************************)
(* gadgets.rs: mine_solution and mine_with.  A solver is its algorithm     *)
(* with the balancing it is configured with.                               *)
(***************************************************************************)
SolverOf(algorithm, iterations) ==
    [algorithm |-> algorithm, iterations |-> iterations, tolerance |-> 0]

\* gadgets.rs:198-232: EPM::Pallet::<T>::mine_solution() mines with
\* T::Solver, the solver of the runtime; the type parameter S is not used
mine_solution(T_Solver, S) == [solver |-> T_Solver]

\* gadgets.rs:255-273: the type mine_with hands to mine_solution as S, its
\* balancing read from the static Balancing
SolverType(solver, balance_iterations) ==
    SolverOf(solver.algorithm, balance_iterations)

\* gadgets.rs:242-275: the value of BalanceIterations after the call and
\* the solution mined
mine_with(solver, T_Solver) ==
    LET balance_iterations == solver.iterations
    IN [BalanceIterations |-> balance_iterations,
        mined |-> mine_solution(T_Solver, SolverType(solver, balance_iterations))]

(***************************************************************************)
(* State.                                                                  *)
(***************************************************************************)
VARIABLES
    voters,           \* utils.rs:13     the Vec handed to from_voters
    sorted_targets,   \* utils.rs:10     Option of the SortedTargets built from it
    share_call,       \* utils.rs:32     Option of the last share_distribution call
    snapshot,         \* gadgets.rs:294  EPM::Snapshot: Option of [voters]
    desired_targets,  \* gadgets.rs:297  EPM::DesiredTargets: Option of u32
    dpos,             \* gadgets.rs:283  Option of the last mine_dpos call and its result
    voter_list,       \* gadgets.rs:166  T::VoterList in iteration order, as weight_of each
    max_electing,     \* gadgets.rs:153  T::MaxElectingVoters
    scan,             \* gadgets.rs:162  min_active_stake: position and locals of the call
    exts,             \* staking_ledger.rs:70  the Vec<Ext> handed to staking_ledger_checks
    slc,              \* staking_ledger.rs:78  staking_ledger_checks: position and locals
    ext,              \* staking_ledger.rs:98  the externalities ledger_checks and bonded_checks run in
    check_call,       \* staking_ledger.rs:9   Option of the last ledger_checks or bonded_checks call
    snapshot_metadata,\* gadgets.rs:57  EPM::SnapshotMetadata: Option of [voters, targets]
    data_provider,    \* gadgets.rs:53  T::DataProvider as create_snapshot reads it
    sdf_calls,        \* gadgets.rs:38  the snapshot_data_or_force calls so far, each with its result
    unbounded_call,   \* gadgets.rs:70  Option of the result of compute_and_store_unbounded_snapshot
    csv_file,         \* main.rs:295    the file at output_path: Option of its lines
    csv_calls,        \* main.rs:294    the write_csv calls so far, each with its entry and result
    cli,              \* main.rs:168    what main finds: the options, the chain, the command's result
    RUNTIME,          \* main.rs:117    the static RUNTIME
    main,             \* main.rs:165    main: position, log and the runtime of the body
    analysis,         \* operations.rs:201  election_analysis: position, inputs and result
    runtime_solver,   \* gadgets.rs:212 T::Solver of the runtime, which EPM::Pallet::mine_solution runs
    BalanceIterations,\* gadgets.rs:237 the static BalanceIterations
    mine_calls        \* gadgets.rs:242 the mine_with calls so far, each with what it ran

vars == <<voters, sorted_targets, share_call, snapshot, desired_targets, dpos,
          voter_list, max_electing, scan, exts, slc, ext, check_call,
          snapshot_metadata, data_provider, sdf_calls, unbounded_call,
          csv_file, csv_calls, cli, RUNTIME, main, analysis, runtime_solver,
          BalanceIterations, mine_calls>>

utils_vars == <<voters, sorted_targets, share_call>>
dpos_vars == <<snapshot, desired_targets, dpos>>
scan_vars == <<voter_list, max_electing, scan>>
ledger_vars == <<exts, slc, ext, check_call>>
epm_vars == <<snapshot_metadata, data_provider, sdf_calls>>
csv_vars == <<csv_file, csv_calls>>
main_vars == <<cli, RUNTIME, main>>
solver_vars == <<runtime_solver, BalanceIterations, mine_calls>>
cli_vars == <<unbounded_call, csv_vars, main_vars, analysis, solver_vars>>

(***************************************************************************)
(* Inputs.                                                                 *)
(***************************************************************************)
\* a voter's nominations: any set of targets, listed in ascending order
TargetLists == {KeysAscending(S) : S \in SUBSET Targets}

\* v is a Vec of up to MaxVoters voters, voter i being account i
IsEnumeratedVoters(v) ==
    \E n \in 0..MaxVoters : \E f \in [1..n -> Stakes \X TargetLists] :
        v = [i \in 1..n |-> [who |-> i, stake |-> f[i][1], targets |-> f[i][2]]]

\* utils.rs:81-87, the voters of the unit tests
TestVoters ==
    <<[who |-> 1, stake |-> 20, targets |-> <<1, 2>>],
      [who |-> 2, stake |-> 10, targets |-> <<3>>],
      [who |-> 3, stake |-> 10, targets |-> <<1, 3>>],
      [who |-> 4, stake |-> 10, targets |-> <<4, 3>>],
      [who |-> 5, stake |-> 10, targets |-> <<1, 3>>]>>

\* a voter that lists a target twice; three targets, one of them nominated
\* by a voter without stake only; five targets of distinct stake
OtherVoters ==
    {<<[who |-> 1, stake |-> 10, targets |-> <<1, 1>>],
       [who |-> 2, stake |-> 15, targets |-> <<2>>]>>,
     <<[who |-> 1, stake |-> 10, targets |-> <<3>>],
       [who |-> 2, stake |-> 0, targets |-> <<2, 3>>],
       [who |-> 3, stake |-> BigStake, targets |-> <<1, 3>>]>>,
     <<[who |-> 1, stake |-> 10, targets |-> <<5, 4, 3, 2, 1>>],
       [who |-> 2, stake |-> 10, targets |-> <<5, 3, 2, 1>>],
       [who |-> 3, stake |-> BigStake, targets |-> <<3, 2, 1>>],
       [who |-> 4, stake |-> 10, targets |-> <<2, 1>>],
       [who |-> 5, stake |-> 10, targets |-> <<1>>]>>}

IsVoterVec(v) == IsEnumeratedVoters(v) \/ v = TestVoters \/ v \in OtherVoters

\* weights of the voters of T::VoterList
ListWeights == {0, 5, 7, U64_MAX}

VoterLists == UNION {[1..n -> ListWeights] : n \in 0..MaxListLen}

ScanIdle == [pc |-> "idle"]

\* what snapshot_data_or_force may find: n voters of stake 10 with the
\* nominations f, a list of targets and the desired targets
SnapshotInput(n, f, targets, desired) ==
    [voters |-> [i \in 1..n |-> [who |-> i, stake |-> 10, targets |-> f[i]]],
     targets |-> targets,
     desired_targets |-> desired]

\* two data providers for the externalities that have a snapshot
FewProviders ==
    {[voters |-> <<>>, targets |-> <<1>>, desired_targets |-> 1],
     [voters |-> TestVoters, targets |-> <<1, 2, 3, 4>>, desired_targets |-> 2]}

Accounts == 1..NumAccounts

BlockNumbers == 1..MaxBlock

PartialMaps(K, V) == UNION {[D -> V] : D \in SUBSET K}

\* the ledger stored under a controller: its stash, and a total that tells
\* the ledgers of one externalities apart
LedgerUnder(controller, stash) == [stash |-> stash, total |-> 10 * controller + stash]

\* the externalities of a block number, a Bonded and the stashes of a Ledger
ExtOf(bn, bonded, stash_of) ==
    [block_number |-> bn,
     bonded |-> bonded,
     ledger |-> [c \in DOMAIN stash_of |-> LedgerUnder(c, stash_of[c])]]

\* e is an externalities over the accounts, with any Bonded and any Ledger
IsExt(e) ==
    \E bn \in BlockNumbers :
        \E bonded \in PartialMaps(Accounts, Accounts) :
            \E stash_of \in PartialMaps(Accounts, Accounts) :
                e = ExtOf(bn, bonded, stash_of)

\* v is a Vec of two such externalities
IsTwoExts(v) ==
    \E bn1 \in BlockNumbers, bn2 \in BlockNumbers :
        \E bonded1 \in PartialMaps(Accounts, Accounts),
           bonded2 \in PartialMaps(Accounts, Accounts) :
            \E stash_of1 \in PartialMaps(Accounts, Accounts),
               stash_of2 \in PartialMaps(Accounts, Accounts) :
                v = <<ExtOf(bn1, bonded1, stash_of1), ExtOf(bn2, bonded2, stash_of2)>>

\* externalities for the calls with a number of them other than two
FewExts ==
    {[block_number |-> 1, bonded |-> (1 :> 1), ledger |-> <<>>],
     [block_number |-> 2, bonded |-> (1 :> 1), ledger |-> (1 :> LedgerUnder(1, 1))]}

NoExt == [block_number |-> 0, bonded |-> <<>>, ledger |-> <<>>]

\* staking_ledger.rs:91-94: the locals of staking_ledger_checks before the call
SlcIdle ==
    [pc |-> "idle", error |-> "",
     ext_parent |-> NoExt, ext_child |-> NoExt,
     bad_ledgers |-> <<>>, none_ledgers |-> <<>>,
     inconsistent_ledgers |-> <<>>, ok_ledgers |-> <<>>,
     parent_inconsistent_ledgers |-> <<>>, batch |-> <<>>]

\* main.rs:117: RUNTIME starts as Polkadot
RuntimeAtStart == "Polkadot"

\* gadgets.rs:237: BalanceIterations starts as 10
BalanceIterationsAtStart == 10

MainIdle == [pc |-> "idle", log |-> <<>>, runtime |-> None, retries |-> 0, result |-> "none"]

AnalysisIdle == [pc |-> "idle", distribution_type |-> "", failed |-> "", steps |-> <<>>]

NoCli == [chain |-> "", command |-> "", at |-> None, failures |-> 0]

CliIdle ==
    /\ unbounded_call = None
    /\ csv_file = None
    /\ csv_calls = <<>>
    /\ cli = NoCli
    /\ RUNTIME = RuntimeAtStart
    /\ main = MainIdle
    /\ analysis = AnalysisIdle
    /\ runtime_solver = None
    /\ BalanceIterations = BalanceIterationsAtStart
    /\ mine_calls = <<>>

EpmIdle ==
    /\ snapshot_metadata = None
    /\ data_provider = None
    /\ sdf_calls = <<>>

LedgerIdle ==
    /\ exts = <<>>
    /\ slc = SlcIdle
    /\ ext = NoExt
    /\ check_call = None

(***************************************************************************)
(* utils.rs as a state machine: from_voters, then share_distribution on    *)
(* the SortedTargets it built.                                             *)
(***************************************************************************)
InitUtils ==
    /\ CliIdle
    /\ EpmIdle
    /\ LedgerIdle
    /\ IsVoterVec(voters)
    /\ sorted_targets = None
    /\ share_call = None
    /\ snapshot = None
    /\ desired_targets = None
    /\ dpos = None
    /\ voter_list = <<>>
    /\ max_electing = 0
    /\ scan = ScanIdle

FromVoters ==
    /\ sorted_targets = None
    /\ sorted_targets' = Some(from_voters(voters))
    /\ UNCHANGED <<voters, share_call, dpos_vars, scan_vars, ledger_vars, epm_vars, cli_vars>>

Share(weight, distribution) ==
    /\ sorted_targets /= None
    /\ share_call = None
    /\ share_call' = Some([weight |-> weight,
                           distribution |-> distribution,
                           out |-> share_distribution(Unwrap(sorted_targets), weight,
                                                      distribution)])
    /\ UNCHANGED <<voters, sorted_targets, dpos_vars, scan_vars, ledger_vars, epm_vars, cli_vars>>

NextUtils ==
    \/ FromVoters
    \/ \E weight \in Weights, distribution \in ShareDistribution :
           Share(weight, distribution)

SpecUtils == InitUtils /\ [][NextUtils]_vars

(***************************************************************************)
(* mine_dpos on the stored snapshot.                                       *)
(***************************************************************************)
Init ==
    /\ CliIdle
    /\ EpmIdle
    /\ LedgerIdle
    /\ \/ snapshot = None
       \/ \E n \in 0..MaxVoters : \E f \in [1..n -> Stakes \X TargetLists] :
              snapshot = Some([voters |-> [i \in 1..n |->
                             [who |-> i, stake |-> f[i][1], targets |-> f[i][2]]]])
       \/ snapshot \in {Some([voters |-> v]) : v \in {TestVoters} \cup OtherVoters}
    /\ desired_targets \in {None} \cup {Some(n) : n \in 0..MaxDesired}
    /\ dpos = None
    /\ voters = <<>>
    /\ sorted_targets = None
    /\ share_call = None
    /\ voter_list = <<>>
    /\ max_electing = 0
    /\ scan = ScanIdle

MineDpos(distribution_type) ==
    /\ dpos = None
    /\ dpos' = Some([distribution_type |-> distribution_type,
                     out |-> mine_dpos(snapshot, desired_targets, distribution_type)])
    /\ UNCHANGED <<snapshot, desired_targets, utils_vars, scan_vars, ledger_vars, epm_vars, cli_vars>>

Next == \E distribution_type \in ShareDistribution : MineDpos(distribution_type)

Spec == Init /\ [][Next]_vars

(***************************************************************************)
(* min_active_stake on the voter list.                                     *)
(***************************************************************************)
InitScan ==
    /\ CliIdle
    /\ EpmIdle
    /\ LedgerIdle
    /\ voter_list \in VoterLists
    /\ max_electing \in 0..MaxElecting
    /\ scan = ScanIdle
    /\ voters = <<>>
    /\ sorted_targets = None
    /\ share_call = None
    /\ snapshot = None
    /\ desired_targets = None
    /\ dpos = None

\* MinActiveStakeStart with min_active_stake starting at 0
MinActiveStakeStart_zero ==
    /\ scan.pc = "idle"
    /\ scan' = [pc |-> "loop",
                max_allowed_len |-> max_allowed_len_of(Some(max_electing), Len(voter_list)),
                all_voters |-> <<>>,
                min_active_stake |-> 0,
                voters_seen |-> 0]
    /\ UNCHANGED <<voter_list, max_electing, utils_vars, dpos_vars, ledger_vars, epm_vars, cli_vars>>

\* gadgets.rs:152-166: the locals before the loop
MinActiveStakeStart ==
    /\ scan.pc = "idle"
    /\ scan' = [pc |-> "loop",
                max_allowed_len |-> max_allowed_len_of(Some(max_electing), Len(voter_list)),
                all_voters |-> <<>>,
                min_active_stake |-> U64_MAX,
                voters_seen |-> 0]
    /\ UNCHANGED <<voter_list, max_electing, utils_vars, dpos_vars, ledger_vars, epm_vars, cli_vars>>

\* gadgets.rs:170-190: one iteration that gets a voter from the iterator
ScanVoter ==
    /\ scan.pc = "loop"
    /\ ScanGoesOn(scan.all_voters, scan.voters_seen, scan.max_allowed_len)
    /\ scan.voters_seen < Len(voter_list)
    /\ LET voter_weight == voter_list[scan.voters_seen + 1] IN
       IF voter_weight = 0
       THEN scan' = [scan EXCEPT !.voters_seen = @ + 1]
       ELSE LET lower == LowerStake(voter_weight, scan.min_active_stake)
            IN scan' = [scan EXCEPT !.voters_seen = @ + 1,
                                    !.min_active_stake = lower,
                                    !.all_voters = Append(@, lower)]
    /\ UNCHANGED <<voter_list, max_electing, utils_vars, dpos_vars, ledger_vars, epm_vars, cli_vars>>

\* gadgets.rs:167-168,175,192: the loop condition fails or the iterator is
\* exhausted, and the function returns min_active_stake
ScanReturn ==
    /\ scan.pc = "loop"
    /\ \/ ~ScanGoesOn(scan.all_voters, scan.voters_seen, scan.max_allowed_len)
       \/ scan.voters_seen >= Len(voter_list)
    /\ scan' = [scan EXCEPT !.pc = "done"]
    /\ UNCHANGED <<voter_list, max_electing, utils_vars, dpos_vars, ledger_vars, epm_vars, cli_vars>>

NextScan == MinActiveStakeStart \/ ScanVoter \/ ScanReturn

SpecScan == InitScan /\ [][NextScan]_vars

\* the call runs on one thread and nothing suspends it: a step that can be
\* taken is taken
SpecScanFair == InitScan /\ [][NextScan]_vars /\ WF_vars(NextScan)

(***************************************************************************)
(* snapshot_data_or_force, called again and again on one externalities.    *)
(***************************************************************************)
InitSnapshot ==
    /\ CliIdle
    /\ \E n \in 0..MaxVoters : \E f \in [1..n -> TargetLists] :
           \E targets \in TargetLists : \E desired \in 0..MaxDesired :
               LET input == SnapshotInput(n, f, targets, desired)
               IN \/ /\ snapshot = None
                     /\ snapshot_metadata = None
                     /\ desired_targets = None
                     /\ data_provider \in {None, Some(input)}
                  \/ /\ snapshot = Some([voters |-> input.voters,
                                         targets |-> input.targets])
                     /\ snapshot_metadata = Some([voters |-> Len(input.voters),
                                                  targets |-> Len(input.targets)])
                     /\ desired_targets = Some(input.desired_targets)
                     /\ data_provider \in {None} \cup {Some(p) : p \in FewProviders}
    /\ sdf_calls = <<>>
    /\ LedgerIdle
    /\ dpos = None
    /\ voters = <<>>
    /\ sorted_targets = None
    /\ share_call = None
    /\ voter_list = <<>>
    /\ max_electing = 0
    /\ scan = ScanIdle

SnapshotDataOrForce ==
    /\ Len(sdf_calls) < MaxCalls
    /\ \A i \in DOMAIN sdf_calls : sdf_calls[i].status = "ok"
    /\ LET storage == [snapshot |-> snapshot,
                       snapshot_metadata |-> snapshot_metadata,
                       desired_targets |-> desired_targets]
           out == snapshot_data_or_force(storage, data_provider)
       IN /\ snapshot' = out.storage.snapshot
          /\ snapshot_metadata' = out.storage.snapshot_metadata
          /\ desired_targets' = out.storage.desired_targets
          /\ sdf_calls' = Append(sdf_calls,
                                 IF out.status = "ok"
                                 THEN [status |-> "ok", existed |-> snapshot /= None,
                                       metadata |-> out.metadata, size |-> out.size]
                                 ELSE [status |-> "panic", existed |-> snapshot /= None])
    /\ UNCHANGED <<data_provider, dpos, utils_vars, scan_vars, ledger_vars, cli_vars>>

NextSnapshot == SnapshotDataOrForce

SpecSnapshot == InitSnapshot /\ [][NextSnapshot]_vars

(***************************************************************************)
(* compute_and_store_unbounded_snapshot on one externalities.              *)
(***************************************************************************)
\* the storage holds no snapshot or the snapshot of an earlier election; the
\* data provider is absent or holds any voters, targets and desired targets
InitUnbounded ==
    /\ CliIdle
    /\ \E n \in 0..MaxVoters : \E f \in [1..n -> TargetLists] :
           \E targets \in TargetLists : \E desired \in 0..MaxDesired :
               data_provider \in {None, Some(SnapshotInput(n, f, targets, desired))}
    /\ \/ /\ snapshot = None
          /\ snapshot_metadata = None
          /\ desired_targets = None
       \/ \E p \in FewProviders :
             /\ snapshot = Some([voters |-> p.voters, targets |-> p.targets])
             /\ snapshot_metadata = Some([voters |-> Len(p.voters),
                                          targets |-> Len(p.targets)])
             /\ desired_targets = Some(p.desired_targets)
    /\ sdf_calls = <<>>
    /\ LedgerIdle
    /\ dpos = None
    /\ voters = <<>>
    /\ sorted_targets = None
    /\ share_call = None
    /\ voter_list = <<>>
    /\ max_electing = 0
    /\ scan = ScanIdle

ComputeAndStoreUnboundedSnapshot ==
    /\ unbounded_call = None
    /\ LET storage == [snapshot |-> snapshot,
                       snapshot_metadata |-> snapshot_metadata,
                       desired_targets |-> desired_targets]
           out == compute_and_store_unbounded_snapshot(storage, data_provider)
       IN /\ snapshot' = out.storage.snapshot
          /\ snapshot_metadata' = out.storage.snapshot_metadata
          /\ desired_targets' = out.storage.desired_targets
          /\ unbounded_call' = Some([status |-> out.status, before |-> storage])
    /\ UNCHANGED <<data_provider, sdf_calls, dpos, utils_vars, scan_vars, ledger_vars,
                   csv_vars, main_vars, analysis, solver_vars>>

NextUnbounded == ComputeAndStoreUnboundedSnapshot

SpecUnbounded == InitUnbounded /\ [][NextUnbounded]_vars

(***************************************************************************)
(* Consecutive write_csv calls on one output path.                         *)
(***************************************************************************)
Entries == 1..NumEntries

WriteOutcomes == {"ok", "open_err", "write_err"}

\* the path does not exist, or holds the header and one row of an earlier run
InitCsv ==
    /\ unbounded_call = None
    /\ csv_file \in {None, Some(<<HeaderLine, Row(1)>>)}
    /\ csv_calls = <<>>
    /\ cli = NoCli
    /\ RUNTIME = RuntimeAtStart
    /\ main = MainIdle
    /\ analysis = AnalysisIdle
    /\ runtime_solver = None
    /\ BalanceIterations = BalanceIterationsAtStart
    /\ mine_calls = <<>>
    /\ EpmIdle
    /\ LedgerIdle
    /\ snapshot = None
    /\ desired_targets = None
    /\ dpos = None
    /\ voters = <<>>
    /\ sorted_targets = None
    /\ share_call = None
    /\ voter_list = <<>>
    /\ max_electing = 0
    /\ scan = ScanIdle

WriteCsv ==
    /\ Len(csv_calls) < MaxCsvCalls
    /\ \E entry \in Entries : \E outcome \in WriteOutcomes :
          LET out == write_csv(csv_file, entry, outcome)
          IN /\ csv_file' = out.file
             /\ csv_calls' = Append(csv_calls,
                                    [entry |-> entry, status |-> out.status,
                                     existed |-> csv_file /= None])
    /\ UNCHANGED <<unbounded_call, main_vars, analysis, solver_vars, epm_vars,
                   ledger_vars, dpos_vars, utils_vars, scan_vars>>

NextCsv == WriteCsv

SpecCsv == InitCsv /\ [][NextCsv]_vars

(***************************************************************************)
(* One execution of main.                                                  *)
(***************************************************************************)
Chains == {"polkadot", "development", "kusama", "kusama-dev", "westend", "rococo"}

Commands == {"Extract", "Transform"}

InitMain ==
    /\ unbounded_call = None
    /\ csv_file = None
    /\ csv_calls = <<>>
    /\ \E chain \in Chains : \E command \in Commands :
          \E at \in {None, Some(1)} : \E failures \in 0..MaxConnectFailures :
             cli = [chain |-> chain, command |-> command, at |-> at,
                    failures |-> failures]
    /\ RUNTIME = RuntimeAtStart
    /\ main = [MainIdle EXCEPT !.pc = "connect"]
    /\ analysis = AnalysisIdle
    /\ runtime_solver = None
    /\ BalanceIterations = BalanceIterationsAtStart
    /\ mine_calls = <<>>
    /\ EpmIdle
    /\ LedgerIdle
    /\ snapshot = None
    /\ desired_targets = None
    /\ dpos = None
    /\ voters = <<>>
    /\ sorted_targets = None
    /\ share_call = None
    /\ voter_list = <<>>
    /\ max_electing = 0
    /\ scan = ScanIdle

MainUnchanged ==
    UNCHANGED <<cli, unbounded_call, csv_vars, analysis, solver_vars, epm_vars,
                ledger_vars, dpos_vars, utils_vars, scan_vars>>

\* main.rs:178-197: SharedRpcClient::new fails, main warns and retries
ConnectRetry ==
    /\ main.pc = "connect"
    /\ main.retries < cli.failures
    /\ main' = [main EXCEPT !.retries = @ + 1,
                            !.log = Append(@, "failed to connect")]
    /\ UNCHANGED RUNTIME
    /\ MainUnchanged

\* main.rs:186: the client connects
Connected ==
    /\ main.pc = "connect"
    /\ main.retries = cli.failures
    /\ main' = [main EXCEPT !.pc = "chain"]
    /\ UNCHANGED RUNTIME
    /\ MainUnchanged

\* main.rs:199-244
SelectRuntime ==
    /\ main.pc = "chain"
    /\ LET selected == RuntimeOfChain(cli.chain)
       IN IF selected = None
          THEN /\ main' = [main EXCEPT !.pc = "returned"]
               /\ UNCHANGED RUNTIME
          ELSE /\ RUNTIME' = Unwrap(selected)
               /\ main' = [main EXCEPT !.pc = "command",
                                       !.log = Append(@, "connected to chain")]
    /\ MainUnchanged

\* main.rs:246-283: the command runs under any_runtime!; extract_cmd and
\* transform_cmd return Ok or Err
RunCommand ==
    /\ main.pc = "command"
    /\ LET m == [main EXCEPT !.runtime = Some(any_runtime(RUNTIME))]
       IN IF cli.at = None
          THEN main' = [m EXCEPT !.log = Append(@, "expected a valid block hash"),
                                 !.pc = "returned"]
          ELSE \E result \in {"ok", "err"} :
                  main' = AfterCommand(m, cli.command, result)
    /\ UNCHANGED RUNTIME
    /\ MainUnchanged

\* main.rs:285-290
FinishRound ==
    /\ main.pc = "finishing"
    /\ main' = [main EXCEPT !.log = Append(@, "round of execution finished"),
                            !.pc = "returned"]
    /\ UNCHANGED RUNTIME
    /\ MainUnchanged

NextMain ==
    \/ ConnectRetry
    \/ Connected
    \/ SelectRuntime
    \/ RunCommand
    \/ FinishRound

SpecMain == InitMain /\ [][NextMain]_vars

(***************************************************************************)
(* operations.rs: one run of election_analysis, one gadget call at a time. *)
(* analysis.pc is the call the run is about to make, "Ok" or "Err" once it *)
(* has returned and "panicked" once it has panicked; analysis.failed is    *)
(* the call that failed and analysis.steps the calls that succeeded.       *)
(***************************************************************************)
\* the storage is as snapshot_data_or_force may find it, the output path
\* does not exist or holds an earlier row, and mine_dpos is given any
\* distribution type
InitAnalysis ==
    /\ unbounded_call = None
    /\ csv_file \in {None, Some(<<HeaderLine, Row(1)>>)}
    /\ csv_calls = <<>>
    /\ cli = NoCli
    /\ RUNTIME = RuntimeAtStart
    /\ main = MainIdle
    /\ \E distribution_type \in ShareDistribution :
          analysis = [AnalysisIdle EXCEPT !.pc = "snapshot_data_or_force",
                                          !.distribution_type = distribution_type]
    /\ runtime_solver = None
    /\ BalanceIterations = BalanceIterationsAtStart
    /\ mine_calls = <<>>
    /\ \E n \in 0..MaxVoters : \E f \in [1..n -> TargetLists] :
           \E targets \in TargetLists : \E desired \in 0..MaxDesired :
               LET input == SnapshotInput(n, f, targets, desired)
               IN \/ /\ snapshot = None
                     /\ snapshot_metadata = None
                     /\ desired_targets = None
                     /\ data_provider \in {None, Some(input)}
                  \/ /\ snapshot = Some([voters |-> input.voters,
                                         targets |-> input.targets])
                     /\ snapshot_metadata = Some([voters |-> Len(input.voters),
                                                  targets |-> Len(input.targets)])
                     /\ desired_targets = Some(input.desired_targets)
                     /\ data_provider \in {None} \cup {Some(p) : p \in FewProviders}
    /\ sdf_calls = <<>>
    /\ LedgerIdle
    /\ dpos = None
    /\ voters = <<>>
    /\ sorted_targets = None
    /\ share_call = None
    /\ voter_list = <<>>
    /\ max_electing = 0
    /\ scan = ScanIdle

AnalysisUnchanged ==
    UNCHANGED <<unbounded_call, csv_calls, main_vars, solver_vars, data_provider,
                sdf_calls, ledger_vars, dpos, utils_vars, scan_vars>>

AnalysisStorage ==
    [snapshot |-> snapshot,
     snapshot_metadata |-> snapshot_metadata,
     desired_targets |-> desired_targets]

\* the run goes on to the call `next`
AnalysisGoesOn(next) ==
    [analysis EXCEPT !.pc = next, !.steps = Append(@, analysis.pc)]

\* the call at analysis.pc returns an error, which `?` returns to the caller
AnalysisReturnsErr == [analysis EXCEPT !.pc = "Err", !.failed = analysis.pc]

\* the call at analysis.pc panics
AnalysisPanics == [analysis EXCEPT !.pc = "panicked", !.failed = analysis.pc]

\* operations.rs:198-201: snapshot_data_or_force, then three reads
AnalysisSnapshotData ==
    /\ analysis.pc = "snapshot_data_or_force"
    /\ LET out == snapshot_data_or_force(AnalysisStorage, data_provider)
       IN /\ snapshot' = out.storage.snapshot
          /\ snapshot_metadata' = out.storage.snapshot_metadata
          /\ desired_targets' = out.storage.desired_targets
          /\ analysis' = IF out.status = "ok"
                         THEN AnalysisGoesOn("mine_with")
                         ELSE AnalysisPanics
    /\ UNCHANGED csv_file
    /\ AnalysisUnchanged

\* operations.rs:203, 209: mine_with returns a solution or an error
AnalysisMineWith ==
    /\ analysis.pc \in {"mine_with", "mine_with unbounded"}
    /\ \E mined \in BOOLEAN :
          analysis' = IF ~mined THEN AnalysisReturnsErr
                      ELSE IF analysis.pc = "mine_with"
                      THEN AnalysisGoesOn("mine_dpos")
                      ELSE AnalysisGoesOn("mine_dpos unbounded")
    /\ UNCHANGED <<snapshot, snapshot_metadata, desired_targets, csv_file>>
    /\ AnalysisUnchanged

\* operations.rs:204, 210
AnalysisMineDpos ==
    /\ analysis.pc \in {"mine_dpos", "mine_dpos unbounded"}
    /\ LET out == mine_dpos(snapshot, desired_targets, analysis.distribution_type)
       IN analysis' = CASE out.status = "panic" -> AnalysisPanics
                        [] out.status = "err" -> AnalysisReturnsErr
                        [] OTHER -> IF analysis.pc = "mine_dpos"
                                    THEN AnalysisGoesOn("compute_and_store_unbounded_snapshot")
                                    ELSE AnalysisGoesOn("write_csv")
    /\ UNCHANGED <<snapshot, snapshot_metadata, desired_targets, csv_file>>
    /\ AnalysisUnchanged

\* operations.rs:207
AnalysisUnboundedSnapshot ==
    /\ analysis.pc = "compute_and_store_unbounded_snapshot"
    /\ LET out == compute_and_store_unbounded_snapshot(AnalysisStorage, data_provider)
       IN /\ snapshot' = out.storage.snapshot
          /\ snapshot_metadata' = out.storage.snapshot_metadata
          /\ desired_targets' = out.storage.desired_targets
          /\ analysis' = IF out.status = "ok"
                         THEN AnalysisGoesOn("mine_with unbounded")
                         ELSE AnalysisReturnsErr
    /\ UNCHANGED csv_file
    /\ AnalysisUnchanged

\* operations.rs:212-227
AnalysisWriteCsv ==
    /\ analysis.pc = "write_csv"
    /\ \E outcome \in WriteOutcomes :
          LET out == write_csv(csv_file, NumEntries, outcome)
          IN /\ csv_file' = out.file
             /\ analysis' = IF out.status = "ok"
                            THEN AnalysisGoesOn("Ok")
                            ELSE AnalysisReturnsErr
    /\ UNCHANGED <<snapshot, snapshot_metadata, desired_targets>>
    /\ AnalysisUnchanged

NextAnalysis ==
    \/ AnalysisSnapshotData
    \/ AnalysisMineWith
    \/ AnalysisMineDpos
    \/ AnalysisUnboundedSnapshot
    \/ AnalysisWriteCsv

SpecAnalysis == InitAnalysis /\ [][NextAnalysis]_vars

(***************************************************************************)
(* Consecutive mine_with calls under one runtime.                          *)
(***************************************************************************)
\* configs.rs:91-103
SolverArgs ==
    {[algorithm |-> a, iterations |-> n] :
        a \in {"SeqPhragmen", "PhragMMS"}, n \in 1..MaxIterations}

\* the runtime is configured with any solver
InitMine ==
    /\ unbounded_call = None
    /\ csv_file = None
    /\ csv_calls = <<>>
    /\ cli = NoCli
    /\ RUNTIME = RuntimeAtStart
    /\ main = MainIdle
    /\ analysis = AnalysisIdle
    /\ \E s \in SolverArgs : runtime_solver = Some(SolverOf(s.algorithm, s.iterations))
    /\ BalanceIterations = BalanceIterationsAtStart
    /\ mine_calls = <<>>
    /\ EpmIdle
    /\ LedgerIdle
    /\ snapshot = None
    /\ desired_targets = None
    /\ dpos = None
    /\ voters = <<>>
    /\ sorted_targets = None
    /\ share_call = None
    /\ voter_list = <<>>
    /\ max_electing = 0
    /\ scan = ScanIdle

MineWith ==
    /\ Len(mine_calls) < MaxMineCalls
    /\ \E solver \in SolverArgs :
          LET out == mine_with(solver, Unwrap(runtime_solver))
          IN /\ BalanceIterations' = out.BalanceIterations
             /\ mine_calls' = Append(mine_calls,
                                     [solver |-> solver, mined |-> out.mined])
    /\ UNCHANGED <<runtime_solver, unbounded_call, csv_vars, main_vars, analysis,
                   epm_vars, ledger_vars, dpos_vars, utils_vars, scan_vars>>

NextMine == MineWith

SpecMine == InitMine /\ [][NextMine]_vars

(***************************************************************************)
(* ledger_checks and bonded_checks on one externalities.                   *)
(***************************************************************************)
InitChecks ==
    /\ CliIdle
    /\ EpmIdle
    /\ IsExt(ext)
    /\ check_call = None
    /\ exts = <<>>
    /\ slc = SlcIdle
    /\ voters = <<>>
    /\ sorted_targets = None
    /\ share_call = None
    /\ snapshot = None
    /\ desired_targets = None
    /\ dpos = None
    /\ voter_list = <<>>
    /\ max_electing = 0
    /\ scan = ScanIdle

LedgerChecks ==
    /\ check_call = None
    /\ check_call' = Some([fn |-> "ledger_checks", out |-> ledger_checks(ext)])
    /\ UNCHANGED <<ext, exts, slc, utils_vars, dpos_vars, scan_vars,
                   epm_vars, cli_vars>>

BondedChecks ==
    /\ check_call = None
    /\ check_call' = Some([fn |-> "bonded_checks", out |-> bonded_checks(ext)])
    /\ UNCHANGED <<ext, exts, slc, utils_vars, dpos_vars, scan_vars,
                   epm_vars, cli_vars>>

NextChecks == LedgerChecks \/ BondedChecks

SpecChecks == InitChecks /\ [][NextChecks]_vars

(***************************************************************************)
(* staking_ledger_checks on the externalities handed to it.                *)
(***************************************************************************)
InitLedger ==
    /\ CliIdle
    /\ EpmIdle
    /\ \/ IsTwoExts(exts)
       \/ \E n \in (0..MaxExts) \ {2} : exts \in [1..n -> FewExts]
    /\ slc = SlcIdle
    /\ ext = NoExt
    /\ check_call = None
    /\ voters = <<>>
    /\ sorted_targets = None
    /\ share_call = None
    /\ snapshot = None
    /\ desired_targets = None
    /\ dpos = None
    /\ voter_list = <<>>
    /\ max_electing = 0
    /\ scan = ScanIdle

\* staking_ledger.rs:74-89: the assertion on the length, then the choice of
\* parent and child
StakingLedgerChecksStart ==
    /\ slc.pc = "idle"
    /\ IF ExpectedLen(exts)
       THEN LET selected == SelectParentChild(exts)
            IN slc' = [slc EXCEPT !.pc = "child",
                                  !.ext_parent = selected.ext_parent,
                                  !.ext_child = selected.ext_child]
       ELSE slc' = [slc EXCEPT !.pc = "panic", !.error = "expected to have len 2"]
    /\ UNCHANGED <<exts, ext, check_call, utils_vars, dpos_vars, scan_vars,
                   epm_vars, cli_vars>>

\* staking_ledger.rs:97-122: the checks in the child externalities
ChildChecks ==
    /\ slc.pc = "child"
    /\ LET lists == bonded_checks(slc.ext_child)
       IN slc' = [slc EXCEPT !.pc = "parent",
                             !.bad_ledgers = ledger_checks(slc.ext_child),
                             !.none_ledgers = lists.none_ledgers,
                             !.inconsistent_ledgers = lists.inconsistent_ledgers,
                             !.ok_ledgers = lists.ok_ledgers]
    /\ UNCHANGED <<exts, ext, check_call, utils_vars, dpos_vars, scan_vars,
                   epm_vars, cli_vars>>

\* staking_ledger.rs:133-158: the checks in the parent externalities and the
\* call of deprecate_controller_simulation with none_ledgers
ParentChecks ==
    /\ slc.pc = "parent"
    /\ slc' = [slc EXCEPT !.pc = "simulate",
                          !.parent_inconsistent_ledgers = ledger_checks(slc.ext_parent),
                          !.batch = slc.none_ledgers]
    /\ UNCHANGED <<exts, ext, check_call, utils_vars, dpos_vars, scan_vars,
                   epm_vars, cli_vars>>

\* staking_ledger.rs:175-191: one iteration of deprecate_controller_simulation,
\* in the parent externalities
DeprecateControllerSimulation ==
    /\ slc.pc = "simulate"
    /\ slc.batch /= <<>>
    /\ LET stash == Head(slc.batch)[1]
           controller == Head(slc.batch)[2]
           ledger == StakingLedgerOf(slc.ext_parent, controller)
       IN IF ledger = None
          THEN slc' = [slc EXCEPT !.pc = "panic",
                                  !.error = "ledger should exist for controller"]
          ELSE slc' = [slc EXCEPT !.ext_parent = DeprecateController(@, stash, controller,
                                                                     Unwrap(ledger)),
                                  !.batch = Tail(@)]
    /\ UNCHANGED <<exts, ext, check_call, utils_vars, dpos_vars, scan_vars,
                   epm_vars, cli_vars>>

\* staking_ledger.rs:160-171: the batch is through; Ok(()) is returned
StakingLedgerChecksReturn ==
    /\ slc.pc = "simulate"
    /\ slc.batch = <<>>
    /\ slc' = [slc EXCEPT !.pc = "ok"]
    /\ UNCHANGED <<exts, ext, check_call, utils_vars, dpos_vars, scan_vars,
                   epm_vars, cli_vars>>

NextLedger ==
    \/ StakingLedgerChecksStart
    \/ ChildChecks
    \/ ParentChecks
    \/ DeprecateControllerSimulation
    \/ StakingLedgerChecksReturn

SpecLedger == InitLedger /\ [][NextLedger]_vars

\* the call runs on one thread and nothing suspends it
SpecLedgerFair == InitLedger /\ [][NextLedger]_vars /\ WF_vars(NextLedger)

(***************************************************************************)
(* Properties of utils.rs, under SpecUtils.                                *)
(***************************************************************************)
\* the nominations of a Vec of voters: (voter index, position in its targets)
Nominations(v) == UNION {{<<i, j>> : j \in DOMAIN v[i].targets} : i \in DOMAIN v}

RECURSIVE SumStakeOf(_, _)
SumStakeOf(nominations, v) ==
    IF nominations = {} THEN 0
    ELSE LET n == CHOOSE n \in nominations : TRUE
         IN v[n[1]].stake + SumStakeOf(nominations \ {n}, v)

\* the stake nominated to target t: the stake of the voter of each nomination
\* of t (a voter that lists t twice nominates it twice)
NominatedStake(v, t) ==
    SumStakeOf({n \in Nominations(v) : v[n[1]].targets[n[2]] = t}, v)

NominatedTargets(v) == {v[n[1]].targets[n[2]] : n \in Nominations(v)}

C2_ProRataEvenShares ==
    (share_call /= None /\ Unwrap(share_call).distribution = ProRata
        /\ Unwrap(sorted_targets) /= <<>>) =>
        LET st == Unwrap(sorted_targets)
            call == Unwrap(share_call)
        IN /\ call.out.status = "ok"
           /\ Len(call.out.shares) = Len(st)
           /\ \A i \in DOMAIN st :
                 call.out.shares[i] = <<st[i], call.weight \div Len(st)>>
           /\ (st = <<4, 2, 1, 3>> /\ call.weight = 100) =>
                 call.out.shares = <<<<4, 25>>, <<2, 25>>, <<1, 25>>, <<3, 25>>>>

\* C2 witness: a ProRata call on several targets whose number does not
\* divide the weight
C2_Witness ==
    /\ share_call /= None
    /\ Unwrap(share_call).distribution = ProRata
    /\ Len(Unwrap(sorted_targets)) >= 2
    /\ Unwrap(share_call).weight % Len(Unwrap(sorted_targets)) /= 0
    /\ Unwrap(share_call).out.status = "ok"

\* the Pareto distribution in exact integer arithmetic: the list split at
\* floor(0.8 * len), floor(0.2 * weight) over the part before the split and
\* floor(0.8 * weight) over the part from the split on
ExactPareto(st, weight) ==
    LET split == (4 * Len(st)) \div 5
        bottom == SubSeq(st, 1, split)
        top == SubSeq(st, split + 1, Len(st))
    IN EqualShares(bottom, (weight \div 5) \div Len(bottom))
       \o EqualShares(top, ((4 * weight) \div 5) \div Len(top))

\* C3: Pareto splits the list at floor(0.8 * len); each target before the
\* split gets floor(floor(0.2 * weight) / size of that part), each target
\* from the split on floor(floor(0.8 * weight) / size of that part), in list
\* order.  Stated for the lists both parts of which are non-empty.
C3_ParetoExactShares ==
    (share_call /= None /\ Unwrap(share_call).distribution = Pareto
        /\ Len(Unwrap(sorted_targets)) >= 2) =>
        /\ Unwrap(share_call).out.status = "ok"
        /\ Unwrap(share_call).out.shares
              = ExactPareto(Unwrap(sorted_targets), Unwrap(share_call).weight)

\* C4: Pareto never divides by zero: the call returns a distribution for
\* every list length, 0 and 1 included.
C4_ParetoAlwaysReturns ==
    (share_call /= None /\ Unwrap(share_call).distribution = Pareto) =>
        Unwrap(share_call).out.status = "ok"

(***************************************************************************)
(* Properties of mine_dpos, under Spec.                                    *)
(***************************************************************************)
\* the voter of the snapshot an assignment belongs to
VoterOf(assignment) ==
    LET v == Unwrap(snapshot).voters
    IN v[CHOOSE i \in DOMAIN v : v[i].who = assignment.who]

Amounts(distribution) == [i \in DOMAIN distribution |-> distribution[i][2]]

\* a voter with stake and with at least one target
GoodVoter(voter) == voter.stake /= 0 /\ Len(voter.targets) > 0

DposReturned == dpos /= None /\ Unwrap(dpos).out.status = "ok"

\* C5: in every assignment mine_dpos produces, under either policy, the
\* amounts of the distribution sum to at most the voter's stake.
C5_SharesWithinStake ==
    DposReturned =>
        \A a \in Range(Unwrap(dpos).out.assignments) :
            SumSeq(Amounts(a.distribution)) <= VoterOf(a).stake

\* C6: every target of a voter's assignment distribution is a target that
\* voter nominated in the snapshot.
C6_SharesOnOwnTargets ==
    DposReturned =>
        \A a \in Range(Unwrap(dpos).out.assignments) :
            \A i \in DOMAIN a.distribution :
                a.distribution[i][1] \in Range(VoterOf(a).targets)

\* C7: with a snapshot and a desired-targets value in storage, a voter of
\* zero stake or without targets gets no assignment and never makes
\* mine_dpos fail: the call never returns an error, the assignments are those
\* of the other voters in snapshot order, a snapshot of skipped voters alone
\* succeeds without assignments, and a run that fails fails as well on the
\* snapshot without its skipped voters.
C7_BadVotersSkipped ==
    (dpos /= None /\ snapshot /= None /\ desired_targets /= None) =>
        LET v == Unwrap(snapshot).voters
            call == Unwrap(dpos)
            good == SelectSeq(v, GoodVoter)
        IN /\ call.out.status \in {"ok", "panic"}
           /\ call.out.status = "ok" =>
                 /\ Len(call.out.assignments) = Len(good)
                 /\ \A i \in DOMAIN good : call.out.assignments[i].who = good[i].who
           /\ good = <<>> => call.out.status = "ok" /\ call.out.assignments = <<>>
           /\ call.out.status = "panic" =>
                 mine_dpos(Some([voters |-> good]), desired_targets,
                           call.distribution_type).status = "panic"

\* C7 witness: a run that returned on a snapshot holding a voter of zero
\* stake with targets, a voter without targets and a voter that is assigned
C7_Witness ==
    /\ DposReturned
    /\ snapshot /= None
    /\ \E i, j \in DOMAIN Unwrap(snapshot).voters :
          /\ Unwrap(snapshot).voters[i].stake = 0
          /\ Unwrap(snapshot).voters[i].targets /= <<>>
          /\ Unwrap(snapshot).voters[j].stake /= 0
          /\ Unwrap(snapshot).voters[j].targets /= <<>>
    /\ Len(Unwrap(dpos).out.assignments) = 1

\* the targets some assignment gives an amount to
SupportedTargets(assignments) ==
    UNION {{a.distribution[i][1] : i \in DOMAIN a.distribution} : a \in Range(assignments)}

MinOf(a, b) == IF a < b THEN a ELSE b

\* C8: the retained winners are the supports of the largest totals: there
\* are min(DesiredTargets, number of supported targets) of them, each a
\* support of a different target, and no discarded support has a total
\* above that of a retained one.
C8_WinnersAreLargest ==
    DposReturned =>
        LET out == Unwrap(dpos).out
            retained == {out.supports[i].target : i \in DOMAIN out.supports}
        IN /\ Len(out.supports) <= Unwrap(desired_targets)
           /\ Len(out.supports)
                 = MinOf(Unwrap(desired_targets),
                         Cardinality(SupportedTargets(out.assignments)))
           /\ Cardinality(retained) = Len(out.supports)
           /\ Range(out.supports) \subseteq Range(out.all_supports)
           /\ \A d \in Range(out.all_supports) : \A r \in Range(out.supports) :
                 d.target \notin retained => d.total <= r.total

\* C8 witness: a run that discards a support of a total below a retained one
C8_Witness ==
    /\ DposReturned
    /\ Unwrap(dpos).out.supports /= <<>>
    /\ \E d \in Range(Unwrap(dpos).out.all_supports) :
          \E r \in Range(Unwrap(dpos).out.supports) :
              /\ d.target \notin {Unwrap(dpos).out.supports[i].target :
                                     i \in DOMAIN Unwrap(dpos).out.supports}
              /\ d.total < r.total

\* the sum of the squares of the totals at the given positions, last first
RECURSIVE SquaresOf(_, _)
SquaresOf(supports, n) ==
    IF n = 0 THEN WideZero
    ELSE WideAdd(WideSquare(supports[n].total), SquaresOf(supports, n - 1))

\* C9: the score is that of the retained winners alone: minimal_stake the
\* smallest retained total, sum_stake the sum of the retained totals and
\* sum_stake_squared the sum of their squares.
C9_ScoreOfWinners ==
    DposReturned =>
        LET out == Unwrap(dpos).out
            totals == [i \in DOMAIN out.supports |-> out.supports[i].total]
        IN /\ out.supports /= <<>> =>
                 /\ out.score.minimal_stake \in Range(totals)
                 /\ \A t \in Range(totals) : out.score.minimal_stake <= t
           /\ out.score.sum_stake = SumSeq(totals)
           /\ out.score.sum_stake_squared = SquaresOf(out.supports, Len(out.supports))

\* C9 witness: a run with a winner and with a discarded support of a total
\* that is not zero and is below the smallest retained one
C9_Witness ==
    /\ DposReturned
    /\ Len(Unwrap(dpos).out.supports) >= 1
    /\ Len(Unwrap(dpos).out.all_supports) > Len(Unwrap(dpos).out.supports)
    /\ \E d \in Range(Unwrap(dpos).out.all_supports) :
          /\ d.total > 0
          /\ d.total < Unwrap(dpos).out.score.minimal_stake

(***************************************************************************)
(* Properties of min_active_stake, under SpecScan.                         *)
(***************************************************************************)
NonZero(weight) == weight /= 0

\* the voters the scan accepts: of the first 2 * max_allowed_len voters of
\* the list, the first max_allowed_len of non-zero weight
AcceptedWeights ==
    LET max_allowed_len == MinOf(max_electing, Len(voter_list))
        window == SubSeq(voter_list, 1, MinOf(2 * max_allowed_len, Len(voter_list)))
    IN Take(SelectSeq(window, NonZero), max_allowed_len)

\* C10: min_active_stake returns the smallest weight among the voters it
\* accepts, which are voters of non-zero weight taken in list order, at most
\* max_allowed_len = min(max_len, total) of them.
C10_SmallestAcceptedWeight ==
    scan.pc = "done" =>
        /\ scan.max_allowed_len = MinOf(max_electing, Len(voter_list))
        /\ Len(scan.all_voters) = Len(AcceptedWeights)
        /\ Len(scan.all_voters) <= scan.max_allowed_len
        /\ AcceptedWeights /= <<>> =>
              /\ scan.min_active_stake \in Range(AcceptedWeights)
              /\ \A w \in Range(AcceptedWeights) : scan.min_active_stake <= w

\* C10 witness: a scan that skipped a voter of zero weight, accepted
\* max_allowed_len voters and left a voter of smaller weight unread
C10_Witness ==
    /\ scan.pc = "done"
    /\ Len(scan.all_voters) = scan.max_allowed_len
    /\ scan.voters_seen > Len(scan.all_voters)
    /\ \E i \in DOMAIN voter_list :
          /\ i > scan.voters_seen
          /\ voter_list[i] /= 0
          /\ voter_list[i] < scan.min_active_stake

\* the three reasons for the scan to stop
ScanStops ==
    \/ Len(scan.all_voters) >= scan.max_allowed_len
    \/ scan.voters_seen >= 2 * scan.max_allowed_len
    \/ scan.voters_seen >= Len(voter_list)

ScanWithinCap ==
    scan.pc \in {"loop", "done"} =>
        /\ scan.voters_seen <= 2 * scan.max_allowed_len
        /\ scan.voters_seen <= Len(voter_list)
        /\ scan.pc = "done" => ScanStops

ScanReadsOnlyWhileNeeded ==
    (scan.pc = "loop" /\ scan'.pc = "loop" /\ scan'.voters_seen > scan.voters_seen)
        => ~ScanStops

\* C11: the scan of min_active_stake terminates and never inspects more than
\* 2 * max_allowed_len entries of the voter list, wherever the voters of
\* zero weight are; it reads no further entry once max_allowed_len voters
\* are accepted, 2 * max_allowed_len entries are inspected or the list ends.
C11_ScanTerminatesWithinCap ==
    /\ []ScanWithinCap
    /\ [][ScanReadsOnlyWhileNeeded]_vars
    /\ <>(scan.pc = "done")

\* C11 witness: a scan stopped by the cap alone, with fewer than
\* max_allowed_len voters accepted and entries of the list left unread
C11_Witness ==
    /\ scan.pc = "done"
    /\ scan.max_allowed_len > 0
    /\ scan.voters_seen = 2 * scan.max_allowed_len
    /\ Len(scan.all_voters) < scan.max_allowed_len
    /\ scan.voters_seen < Len(voter_list)

\* C12: min_active_stake never returns 0, and it returns u64::MAX when it
\* met no voter of non-zero weight among the entries it inspected.
C12_SentinelNeverZero ==
    scan.pc = "done" =>
        /\ scan.min_active_stake /= 0
        /\ (\A i \in 1..scan.voters_seen : voter_list[i] = 0)
              => scan.min_active_stake = U64_MAX

\* C12 witness: a scan that inspected voters, all of them of zero weight,
\* and returned u64::MAX
C12_Witness ==
    /\ scan.pc = "done"
    /\ scan.voters_seen > 0
    /\ \A i \in 1..scan.voters_seen : voter_list[i] = 0
    /\ scan.min_active_stake = U64_MAX

(***************************************************************************)
(* Properties of staking_ledger_checks, under SpecLedger, and of           *)
(* ledger_checks and bonded_checks, under SpecChecks.                      *)
(***************************************************************************)
TwoBlocks == Len(exts) = 2 /\ exts[1].block_number /= exts[2].block_number

\* of two externalities of different block numbers, the one of the smaller
\* and the one of the larger
Older == IF exts[1].block_number < exts[2].block_number THEN exts[1] ELSE exts[2]

Newer == IF exts[1].block_number < exts[2].block_number THEN exts[2] ELSE exts[1]

\* C13: of two externalities of different block numbers, in either order,
\* the one of the smaller block number is the parent and the other the
\* child: the lists of the classification are those of the externalities of
\* the larger block number, and the checks of the parent and the simulation
\* work on the externalities of the smaller.
C13_SmallerBlockIsParent ==
    (TwoBlocks /\ slc.pc /= "idle") =>
        /\ slc.ext_child = Newer
        /\ slc.ext_parent.block_number = Older.block_number
        /\ slc.pc \in {"child", "parent"} => slc.ext_parent = Older
        /\ slc.pc \in {"parent", "simulate", "ok", "panic"} =>
              /\ slc.bad_ledgers = ledger_checks(Newer)
              /\ slc.none_ledgers = bonded_checks(Newer).none_ledgers
              /\ slc.inconsistent_ledgers = bonded_checks(Newer).inconsistent_ledgers
              /\ slc.ok_ledgers = bonded_checks(Newer).ok_ledgers
        /\ slc.pc \in {"simulate", "ok", "panic"} =>
              slc.parent_inconsistent_ledgers = ledger_checks(Older)

\* C13 witness: a call that returned, the externalities of the larger block
\* number being the first of the Vec, and whose simulation changed the
\* externalities of the smaller block number
C13_Witness ==
    /\ slc.pc = "ok"
    /\ Len(exts) = 2
    /\ exts[1].block_number > exts[2].block_number
    /\ slc.none_ledgers /= <<>>
    /\ slc.ext_parent /= exts[2]
    /\ exts[1] /= exts[2]

\* C14: with a number of externalities other than two the call panics at
\* its assertion, with no list filled and no externalities chosen or
\* written; with two it does not panic there.
C14_ExactlyTwoSnapshots ==
    /\ Len(exts) /= 2 =>
          slc \in {SlcIdle,
                   [SlcIdle EXCEPT !.pc = "panic", !.error = "expected to have len 2"]}
    /\ Len(exts) = 2 => slc.error /= "expected to have len 2"

\* C14 witness: the panic of a call with more than two externalities
C14_Witness ==
    /\ Len(exts) > 2
    /\ slc.pc = "panic"

Count(seq, x) == Cardinality({i \in DOMAIN seq : seq[i] = x})

\* the ledgers of stash whose controller Bonded does not give for the stash
FailingLedgers(stash) ==
    {controller \in DOMAIN ext.ledger :
        /\ ext.ledger[controller].stash = stash
        /\ \/ stash \notin DOMAIN ext.bonded
           \/ ext.bonded[stash] /= controller}

C16_ExactlyOneClass ==
    (check_call /= None /\ Unwrap(check_call).fn = "bonded_checks") =>
        \A stash \in DOMAIN ext.bonded :
            LET controller == ext.bonded[stash]
                out == Unwrap(check_call).out
                has_ledger == controller \in DOMAIN ext.ledger
                in_none == <<stash, controller>> \in Range(out.none_ledgers)
                in_inconsistent == \E pair \in Range(out.inconsistent_ledgers) :
                                       pair[1] = stash
                in_ok == stash \in Range(out.ok_ledgers)
            IN /\ in_none <=> ~has_ledger
               /\ in_inconsistent <=>
                      (has_ledger /\ ext.ledger[controller].stash /= stash)
               /\ in_ok <=> (has_ledger /\ ext.ledger[controller].stash = stash)

\* the parent externalities as they were handed to the call
OriginalParent == SelectParentChild(exts).ext_parent

OriginalChild == SelectParentChild(exts).ext_child

\* C17: when the call returned, every (stash, controller) of none_ledgers
\* whose controller had a ledger in the parent has Bonded[stash] = stash,
\* that ledger under stash, and no ledger under controller unless it is the
\* stash.
C17_MigrationRepairs ==
    slc.pc = "ok" =>
        \A pair \in Range(slc.none_ledgers) :
            LET stash == pair[1]
                controller == pair[2]
            IN controller \in DOMAIN OriginalParent.ledger =>
                  /\ StorageGet(slc.ext_parent.bonded, stash) = Some(stash)
                  /\ StorageGet(slc.ext_parent.ledger, stash)
                        = Some(OriginalParent.ledger[controller])
                  /\ controller /= stash =>
                        controller \notin DOMAIN slc.ext_parent.ledger

\* C18: the call leaves Bonded and Ledger of both externalities handed to
\* it as they were.
C18_SnapshotsUntouched ==
    (Len(exts) = 2 /\ slc.pc /= "idle") =>
        /\ slc.ext_parent = OriginalParent
        /\ slc.ext_child = OriginalChild

\* the next pair of the simulation has a controller without ledger in the
\* parent externalities as they are at that point
MissingLedger ==
    /\ slc.pc = "simulate"
    /\ slc.batch /= <<>>
    /\ Head(slc.batch)[2] \notin DOMAIN slc.ext_parent.ledger

FailsOnlyOnMissingLedger ==
    (Len(exts) = 2 /\ slc' /= slc) =>
        /\ slc'.pc = "panic" <=> MissingLedger
        /\ (slc.pc = "simulate" /\ slc.batch = <<>>) => slc'.pc = "ok"

\* C19: with two externalities the call runs to its end, and it returns
\* Ok(()) unless the simulation comes to a pair whose controller has no
\* ledger in the parent externalities at that point, where it panics.
C19_FailsOnlyOnMissingLedger ==
    /\ [][FailsOnlyOnMissingLedger]_vars
    /\ [](slc.pc = "panic" /\ Len(exts) = 2 => slc.error = "ledger should exist for controller")
    /\ <>(slc.pc \in {"ok", "panic"})

\* C19 witness: a call that returned although the child has a ledger count
\* other than its Bonded count, a bad stash, a missing and an inconsistent
\* ledger
C19_Witness ==
    /\ slc.pc = "ok"
    /\ Cardinality(DOMAIN slc.ext_child.ledger) /= Cardinality(DOMAIN slc.ext_child.bonded)
    /\ slc.bad_ledgers /= <<>>
    /\ slc.none_ledgers /= <<>>
    /\ slc.inconsistent_ledgers /= <<>>
    /\ slc.parent_inconsistent_ledgers /= <<>>

(***************************************************************************)
(* Properties of snapshot_data_or_force, under SpecSnapshot.               *)
(***************************************************************************)
SnapshotKept ==
    snapshot /= None =>
        /\ snapshot' = snapshot
        /\ snapshot_metadata' = snapshot_metadata
        /\ desired_targets' = desired_targets

SameSnapshotData ==
    \A i \in DOMAIN sdf_calls : \A j \in DOMAIN sdf_calls :
        (i < j /\ sdf_calls[i].existed) =>
            /\ sdf_calls[i].status = "ok"
            /\ sdf_calls[j] = sdf_calls[i]

\* C20: a call of snapshot_data_or_force on storage that has a snapshot
\* leaves the snapshot, its metadata and the desired targets as they are,
\* and the calls that follow return the metadata and the encoded size that
\* it returned.
C20_IdempotentOnExistingSnapshot ==
    /\ [][SnapshotKept]_vars
    /\ []SameSnapshotData

\* C20 witness: MaxCalls calls on storage that had a snapshot from the
\* start, with a data provider that would give another snapshot
C20_Witness ==
    /\ Len(sdf_calls) = MaxCalls
    /\ sdf_calls[1].existed
    /\ data_provider /= None
    /\ Unwrap(data_provider).voters /= Unwrap(snapshot).voters
    /\ Len(Unwrap(data_provider).targets) /= Unwrap(snapshot_metadata).targets

(***************************************************************************)
(* Properties of compute_and_store_unbounded_snapshot, under SpecUnbounded.*)
(***************************************************************************)
UnboundedReturned == unbounded_call /= None /\ Unwrap(unbounded_call).status = "ok"

AllWritesSucceeded ==
    /\ csv_calls /= <<>>
    /\ \A i \in DOMAIN csv_calls : csv_calls[i].status = "ok"

RowsInCallOrder == [i \in 1..Len(csv_calls) |-> Row(csv_calls[i].entry)]

\* C22: after n >= 1 write_csv calls that all succeeded, on a path that did
\* not exist before the first of them, the file is one header followed by
\* the n rows in call order; as this holds after every call, no later call
\* adds a header or removes a row.
C22_OneHeaderThenRows ==
    (AllWritesSucceeded /\ ~csv_calls[1].existed) =>
        csv_file = Some(<<HeaderLine>> \o RowsInCallOrder)

\* C22 witness: MaxCsvCalls successful calls on a fresh path, the entries
\* not in ascending order
C22_Witness ==
    /\ AllWritesSucceeded
    /\ ~csv_calls[1].existed
    /\ Len(csv_calls) = MaxCsvCalls
    /\ csv_calls[1].entry > csv_calls[2].entry

(***************************************************************************)
(* Properties of main and any_runtime!, under SpecMain.                    *)
(***************************************************************************)
\* C23: when the extract or transform command returns an error, main logs
\* it and does not abort: it is never left panicked.
C23_FailedRunDoesNotCrash ==
    main.result = "err" => main.pc /= "panicked"

\* the spec_name of the Runtime that belongs to a selector
SpecNameOf(runtime) ==
    CASE runtime = "Polkadot" -> "polkadot"
      [] runtime = "Kusama" -> "kusama"
      [] runtime = "Westend" -> "westend"

\* C25: the body of any_runtime! runs against the runtime selected in
\* RUNTIME: polkadot for Polkadot, kusama for Kusama, westend for Westend.
C25_BodySeesSelectedRuntime ==
    main.runtime /= None => Unwrap(main.runtime) = SpecNameOf(RUNTIME)

(***************************************************************************)
(* Properties of election_analysis, under SpecAnalysis.                    *)
(***************************************************************************)
SolverDposOrSnapshotStep ==
    {"mine_with", "mine_dpos", "compute_and_store_unbounded_snapshot",
     "mine_with unbounded", "mine_dpos unbounded"}

RowOfThisRun ==
    /\ csv_file /= None
    /\ Len(Unwrap(csv_file)) > 0
    /\ Unwrap(csv_file)[Len(Unwrap(csv_file))] = Row(NumEntries)

C26_MinesWithNamedSolver ==
    \A i \in DOMAIN mine_calls :
        mine_calls[i].mined.solver =
            SolverOf(mine_calls[i].solver.algorithm, mine_calls[i].solver.iterations)

(***************************************************************************)
(* from_voters and the order of the voters, under SpecUtils.               *)
(***************************************************************************)
Permuted(v, p) == [i \in 1..Len(v) |-> v[p[i]]]

\* C27: from_voters yields the same target order for every permutation of
\* the voters (the stakes of the model do not overflow u64).
C27_VoterOrderIrrelevant ==
    sorted_targets /= None =>
        \A p \in Permutations(1..Len(voters)) :
            from_voters(Permuted(voters, p)) = Unwrap(sorted_targets)

\* C27 witness: from_voters has run on voters whose first two differ in
\* stake and in targets and that name two targets of equal stake
C27_Witness ==
    /\ sorted_targets /= None
    /\ Len(voters) >= 2
    /\ voters[1].stake /= voters[2].stake
    /\ voters[1].targets /= voters[2].targets
    /\ \E t, u \in DOMAIN StakeMap(voters) :
          t /= u /\ StakeMap(voters)[t] = StakeMap(voters)[u]

(***************************************************************************)
(* share_distribution within mine_dpos, under Spec.                        *)
(***************************************************************************)
\* C28: within mine_dpos a voter reaches share_distribution only with a
\* target, which is then in the aggregate list: whenever some voter is not
\* skipped the list is not empty, and a ProRata run never panics on the
\* division by the length of the list.
C28_ProRataNeverDividesByZero ==
    (dpos /= None /\ snapshot /= None /\ desired_targets /= None) =>
        LET v == Unwrap(snapshot).voters
        IN /\ (\E i \in DOMAIN v : GoodVoter(v[i])) => from_voters(v) /= <<>>
           /\ Unwrap(dpos).distribution_type = ProRata =>
                 Unwrap(dpos).out.status = "ok"

\* C28 witness: a ProRata run that skipped a voter without targets and
\* assigned the stake of another voter
C28_Witness ==
    /\ DposReturned
    /\ Unwrap(dpos).distribution_type = ProRata
    /\ \E i \in DOMAIN Unwrap(snapshot).voters :
          /\ Unwrap(snapshot).voters[i].targets = <<>>
          /\ Unwrap(snapshot).voters[i].stake /= 0
    /\ Unwrap(dpos).out.assignments /= <<>>

(***************************************************************************)
(* The ProRata score of mine_dpos, under Spec.                             *)
(***************************************************************************)
\* the total of the support of a target, 0 for a target without support
SupportTotalOf(all_supports, target) ==
    IF \E i \in DOMAIN all_supports : all_supports[i].target = target
    THEN LET i == CHOOSE i \in DOMAIN all_supports : all_supports[i].target = target
         IN all_supports[i].total
    ELSE 0

\* the sum over the voters that are not skipped of stake / len
RECURSIVE EvenShareSum(_, _)
EvenShareSum(v, len) ==
    IF v = <<>> THEN 0
    ELSE (IF GoodVoter(Head(v)) THEN Head(v).stake \div len ELSE 0)
         + EvenShareSum(Tail(v), len)

\* sum = k * each, without forming the product
IsProduct(sum, k, each) ==
    IF k = 0 THEN sum = 0 ELSE sum % k = 0 /\ sum \div k = each

\* C29: under ProRata every target of the aggregate list has the same
\* support total, the sum over the voters not skipped of stake / number of
\* targets, and the score has sum_stake = k * minimal_stake for
\* k = min(DesiredTargets, number of targets), whoever nominated whom.
C29_ProRataEvenScore ==
    (DposReturned /\ Unwrap(dpos).distribution_type = ProRata) =>
        LET out == Unwrap(dpos).out
            v == Unwrap(snapshot).voters
            list == from_voters(v)
            k == MinOf(Unwrap(desired_targets), Len(list))
        IN /\ \A i \in DOMAIN list :
                 SupportTotalOf(out.all_supports, list[i]) = EvenShareSum(v, Len(list))
           /\ IsProduct(out.score.sum_stake, k, out.score.minimal_stake)

=============================================================================
